---- MODULE Spec2Model ----
(***************************************************************************)
(* A model of the content-addressed review cache of the GitLab AI code     *)
(* reviewer (src/src/review_cache.py): the fingerprint of a diff set, the  *)
(* SQLite table keyed by (provider, model, diff_hash), and the two public  *)
(* operations get_cached_review_for_changes / put_cached_review_for_changes*)
(* run by concurrent callers against a store whose steps may fail.         *)
(*                                                                         *)
(* Python strings are sequences of one-character strings.  Python objects  *)
(* (the values json.dumps / json.loads handle) are tagged records.         *)
(***************************************************************************)
EXTENDS Integers, Sequences, FiniteSets, TLC

(***************************************************************************)
(* State                                                                   *)
(***************************************************************************)
VARIABLES
    environ,   \* os.environ.get("REVIEW_CACHE_DB_PATH")
    dirs,      \* the directories that exist
    db,        \* per path: the database file, its table and the table's rows
    lock,      \* per path: the caller whose transaction holds the write lock
    proc,      \* per caller: the call in progress and its local variables
    leaked,    \* connections left open that no caller can close any more
    calls,     \* calls started so far
    hist,      \* per path, for the keys committed to: the last two results
    oob,       \* the <<path, key>> whose payload was last written out-of-band
    written,   \* the <<path, provider, model, changes>> of the committed puts
    effect,    \* per caller: whether a step of its call changed stored rows
    fpArgs,    \* the fingerprint alone: two diff sets
    fpOut,     \* the fingerprint alone: what it computed for them
    mon        \* monitoring: its environment and the send_* call in progress

vars ==
    <<environ, dirs, db, lock, proc, leaked, calls, hist, oob, written,
      effect, fpArgs, fpOut, mon>>

(***************************************************************************)
(* Python values                                                           *)
(***************************************************************************)
PyNone == [t |-> "none"]
PyBool(b) == [t |-> "bool", v |-> b]
PyInt(n) == [t |-> "int", v |-> n]
\* a float i.f, f the fraction's digits without trailing zeros (repr's form)
PyFloat(i, f) == [t |-> "float", i |-> i, f |-> f]
PyStr(s) == [t |-> "str", v |-> s]
\* a dict in insertion order: a sequence of <<key string, value>> pairs
PyDict(items) == [t |-> "dict", v |-> items]
PyList(items) == [t |-> "list", v |-> items]
\* an object json.dumps has no encoder for (a set, bytes, a datetime)
PyOpaque == [t |-> "opaque"]

\* Python truthiness, as `x or ""` and `if not row` use it
Truthy(x) ==
    CASE x.t = "none" -> FALSE
      [] x.t = "bool" -> x.v
      [] x.t = "int" -> x.v # 0
      [] x.t = "str" -> x.v # <<>>
      [] x.t = "dict" -> x.v # <<>>
      [] x.t = "list" -> x.v # <<>>
      [] OTHER -> TRUE

\* dict.get(key, default)
DictGet(d, key, default) ==
    IF \E i \in 1..Len(d.v) : d.v[i][1] = key
    THEN d.v[CHOOSE i \in 1..Len(d.v) : d.v[i][1] = key][2]
    ELSE default

\* d[key] = value on a dict under construction: a repeated key keeps its place
DictSet(items, key, value) ==
    IF \E i \in 1..Len(items) : items[i][1] = key
    THEN [i \in 1..Len(items) |->
            IF items[i][1] = key THEN <<key, value>> ELSE items[i]]
    ELSE Append(items, <<key, value>>)

(***************************************************************************)
(* Characters                                                              *)
(***************************************************************************)
NL == "\n"
QUOTE == "\""
BSLASH == "\\"
\* a non-ASCII character (U+D55C) and a lone surrogate (U+D800), which a str
\* decoded from the GitLab API's JSON ("\ud800") may hold
HANGUL == "U+D55C"
SURROGATE == "U+D800"

Digits == <<"0", "1", "2", "3", "4", "5", "6", "7", "8", "9">>
IsDigit(c) == \E d \in 1..10 : Digits[d] = c
DigitVal(c) == (CHOOSE d \in 1..10 : Digits[d] = c) - 1
IsSpace(c) == c \in {" ", "\t", "\n", "\r"}

RECURSIVE IntToStr(_)
IntToStr(n) ==
    IF n < 10 THEN <<Digits[n + 1]>>
    ELSE IntToStr(n \div 10) \o <<Digits[(n % 10) + 1]>>

RECURSIVE Flatten(_)
Flatten(ss) == IF ss = <<>> THEN <<>> ELSE Head(ss) \o Flatten(Tail(ss))

\* "sep".join(lines)
RECURSIVE Join(_, _)
Join(sep, lines) ==
    IF lines = <<>> THEN <<>>
    ELSE IF Len(lines) = 1 THEN lines[1]
    ELSE lines[1] \o sep \o Join(sep, Tail(lines))

(***************************************************************************)
(* The fingerprint: _build_diff_hash                                       *)
(***************************************************************************)
S_old_path == <<"o", "l", "d", "_", "p", "a", "t", "h", ":">>
S_new_path == <<"n", "e", "w", "_", "p", "a", "t", "h", ":">>
S_flags == <<"f", "l", "a", "g", "s", ":">>
S_diff == <<"d", "i", "f", "f", ":">>
S_dashes == <<"-", "-", "-">>

\* A GitDiffChange: the dict's values under old_path, new_path, new_file,
\* deleted_file, renamed_file and diff (PyNone for a missing key or a null).
Change(old, new, isNew, isDeleted, isRenamed, diff) ==
    [old_path |-> PyStr(old), new_path |-> PyStr(new),
     new_file |-> PyBool(isNew), deleted_file |-> PyBool(isDeleted),
     renamed_file |-> PyBool(isRenamed), diff |-> PyStr(diff)]

\* `x or ""`
OrEmpty(x) == IF Truthy(x) THEN x.v ELSE <<>>

\* FlagsCode with nothing in the place of a flag that is not set
FlagsCodeShort(change) ==
    Flatten(<< IF Truthy(change.new_file) THEN <<"N">> ELSE <<>>,
               IF Truthy(change.deleted_file) THEN <<"D">> ELSE <<>>,
               IF Truthy(change.renamed_file) THEN <<"R">> ELSE <<>> >>)

\* the 3-character flags code
FlagsCode(change) ==
    Flatten(<< IF Truthy(change.new_file) THEN <<"N">> ELSE <<"-">>,
               IF Truthy(change.deleted_file) THEN <<"D">> ELSE <<"-">>,
               IF Truthy(change.renamed_file) THEN <<"R">> ELSE <<"-">> >>)

\* the six lines of one change's segment
SegmentLines(change) ==
    << S_old_path \o OrEmpty(change.old_path),
       S_new_path \o OrEmpty(change.new_path),
       S_flags \o FlagsCode(change),
       S_diff,
       OrEmpty(change.diff),
       S_dashes >>

Segment(change) == Join(<<NL>>, SegmentLines(change))

\* str.encode("utf-8"): one byte per ASCII character, three for U+D55C;
\* a lone surrogate cannot be encoded (UnicodeEncodeError)
Encodable(s) == \A i \in 1..Len(s) : s[i] # SURROGATE
Utf8Char(c) == IF c = HANGUL THEN <<"xED", "x95", "x9C">> ELSE <<c>>
Utf8(s) == Flatten([i \in 1..Len(s) |-> Utf8Char(s[i])])

\* hashlib.sha256: the hasher's state is the bytes fed so far, and the digest
\* stands for them (SHA-256 taken as collision-free: equal digests, equal bytes)
HasherNew == <<>>
HasherUpdate(hasher, bytes) == hasher \o bytes
HexDigest(hasher) == <<"sha256", hasher>>

\* the bytes fed to the hasher by the loop over the changes; ok = FALSE when
\* an encode raises, which ends _build_diff_hash with that exception
RECURSIVE HashLoop(_, _)
HashLoop(hasher, changes) ==
    IF changes = <<>> THEN [ok |-> TRUE, hasher |-> hasher]
    ELSE IF ~Encodable(Segment(Head(changes)))
         THEN [ok |-> FALSE, hasher |-> hasher]
         ELSE HashLoop(HasherUpdate(hasher, Utf8(Segment(Head(changes)))),
                       Tail(changes))

\* the canonical byte string of a diff set
CanonicalBytes(changes) == HashLoop(HasherNew, changes).hasher

\* BuildDiffHash with the store location mixed into the digest
BuildDiffHashSalted(changes) ==
    LET r == HashLoop(HasherNew, changes)
    IN  IF r.ok
        THEN [ok |-> TRUE,
              digest |-> HexDigest(HasherUpdate(r.hasher,
                                                Utf8(OrEmpty(environ))))]
        ELSE [ok |-> FALSE, digest |-> <<>>]

BuildDiffHash(changes) ==
    LET r == HashLoop(HasherNew, changes)
    IN  IF r.ok THEN [ok |-> TRUE, digest |-> HexDigest(r.hasher)]
        ELSE [ok |-> FALSE, digest |-> <<>>]

(***************************************************************************)
(* json.dumps (defaults: ensure_ascii, separators ", " and ": ")           *)
(***************************************************************************)
HexOf(c) ==
    IF c = HANGUL THEN <<"d", "5", "5", "c">> ELSE <<"d", "8", "0", "0">>

\* EscapeChar without the escape of the double quote
EscapeCharNoQuote(c) ==
    CASE c = BSLASH -> <<BSLASH, BSLASH>>
      [] c = NL -> <<BSLASH, "n">>
      [] c \in {HANGUL, SURROGATE} -> <<BSLASH, "u">> \o HexOf(c)
      [] OTHER -> <<c>>

\* one character of a str inside a JSON string literal
EscapeChar(c) ==
    CASE c = QUOTE -> <<BSLASH, QUOTE>>
      [] c = BSLASH -> <<BSLASH, BSLASH>>
      [] c = NL -> <<BSLASH, "n">>
      [] c \in {HANGUL, SURROGATE} -> <<BSLASH, "u">> \o HexOf(c)
      [] OTHER -> <<c>>

EncodeStr(s) ==
    <<QUOTE>> \o Flatten([i \in 1..Len(s) |-> EscapeChar(s[i])]) \o <<QUOTE>>

\* float.__repr__ of i.f
FloatRepr(x) == IntToStr(x.i) \o <<".">> \o x.f

\* json.dumps raises TypeError on an object it has no encoder for
RECURSIVE Serializable(_)
Serializable(x) ==
    CASE x.t = "opaque" -> FALSE
      [] x.t = "dict" -> \A i \in 1..Len(x.v) : Serializable(x.v[i][2])
      [] x.t = "list" -> \A i \in 1..Len(x.v) : Serializable(x.v[i])
      [] OTHER -> TRUE

RECURSIVE Encode(_)
Encode(x) ==
    CASE x.t = "none" -> <<"n", "u", "l", "l">>
      [] x.t = "bool" -> IF x.v THEN <<"t", "r", "u", "e">>
                         ELSE <<"f", "a", "l", "s", "e">>
      [] x.t = "int" -> IntToStr(x.v)
      [] x.t = "float" -> FloatRepr(x)
      [] x.t = "str" -> EncodeStr(x.v)
      [] x.t = "dict" ->
            <<"{">> \o
            Join(<<",", " ">>,
                 [i \in 1..Len(x.v) |->
                    EncodeStr(x.v[i][1]) \o <<":", " ">> \o Encode(x.v[i][2])])
            \o <<"}">>
      [] x.t = "list" ->
            <<"[">> \o
            Join(<<",", " ">>, [i \in 1..Len(x.v) |-> Encode(x.v[i])])
            \o <<"]">>

\* json.dumps(result): ok = FALSE for a TypeError
Dumps(x) ==
    IF Serializable(x) THEN [ok |-> TRUE, s |-> Encode(x)]
    ELSE [ok |-> FALSE, s |-> <<>>]

(***************************************************************************)
(* json.loads: the decoder's scanner over the characters of the model.     *)
(* A result is [ok, v, n]: the value and the index after it, or ok = FALSE *)
(* for a JSONDecodeError.                                                  *)
(***************************************************************************)
At(s, i) == IF i >= 1 /\ i <= Len(s) THEN s[i] ELSE "EOF"
ParseFail == [ok |-> FALSE, v |-> PyNone, n |-> 0]
ParseOk(v, n) == [ok |-> TRUE, v |-> v, n |-> n]
StartsWith(s, i, word) ==
    /\ i + Len(word) - 1 <= Len(s)
    /\ SubSeq(s, i, i + Len(word) - 1) = word

RECURSIVE SkipWs(_, _)
SkipWs(s, i) == IF IsSpace(At(s, i)) THEN SkipWs(s, i + 1) ELSE i

\* the index after the run of digits starting at i
RECURSIVE DigitsEnd(_, _)
DigitsEnd(s, i) == IF IsDigit(At(s, i)) THEN DigitsEnd(s, i + 1) ELSE i

RECURSIVE StrToInt(_)
StrToInt(ds) ==
    IF ds = <<>> THEN 0
    ELSE 10 * StrToInt(SubSeq(ds, 1, Len(ds) - 1)) + DigitVal(ds[Len(ds)])

RECURSIVE StripZeros(_)
StripZeros(ds) ==
    IF Len(ds) > 1 /\ ds[Len(ds)] = "0"
    THEN StripZeros(SubSeq(ds, 1, Len(ds) - 1)) ELSE ds

\* NUMBER_RE: (0|[1-9]\d*)(\.\d+)? at i, At(s, i) being a digit
ScanNumber(s, i) ==
    LET intEnd == IF At(s, i) = "0" THEN i + 1 ELSE DigitsEnd(s, i)
        intVal == StrToInt(SubSeq(s, i, intEnd - 1))
        fracEnd == IF At(s, intEnd) = "." THEN DigitsEnd(s, intEnd + 1)
                   ELSE intEnd
    IN  IF fracEnd > intEnd + 1
        THEN ParseOk(PyFloat(intVal,
                             StripZeros(SubSeq(s, intEnd + 1, fracEnd - 1))),
                     fracEnd)
        ELSE ParseOk(PyInt(intVal), intEnd)

\* the character a backslash escape stands for; "" when it is no escape
Unescape(s, i) ==
    LET e == At(s, i)
    IN  CASE e = QUOTE -> [c |-> QUOTE, n |-> i + 1]
          [] e = BSLASH -> [c |-> BSLASH, n |-> i + 1]
          [] e = "/" -> [c |-> "/", n |-> i + 1]
          [] e = "n" -> [c |-> NL, n |-> i + 1]
          [] e = "t" -> [c |-> "\t", n |-> i + 1]
          [] e = "r" -> [c |-> "\r", n |-> i + 1]
          [] e = "u" /\ StartsWith(s, i + 1, HexOf(HANGUL)) ->
                [c |-> HANGUL, n |-> i + 5]
          [] e = "u" /\ StartsWith(s, i + 1, HexOf(SURROGATE)) ->
                [c |-> SURROGATE, n |-> i + 5]
          [] OTHER -> [c |-> "", n |-> i]

\* py_scanstring (strict): i is the index after the opening quote
RECURSIVE ScanString(_, _, _)
ScanString(s, i, acc) ==
    LET c == At(s, i)
    IN  CASE c = "EOF" -> ParseFail
          [] c = QUOTE -> ParseOk(PyStr(acc), i + 1)
          [] c \in {NL, "\t", "\r"} -> ParseFail
          [] c = BSLASH ->
                LET u == Unescape(s, i + 1)
                IN  IF u.c = "" THEN ParseFail
                    ELSE ScanString(s, u.n, Append(acc, u.c))
          [] OTHER -> ScanString(s, i + 1, Append(acc, c))

RECURSIVE ScanOnce(_, _)
RECURSIVE ObjectItems(_, _, _)
RECURSIVE ArrayItems(_, _, _)

\* JSONObject's loop: i is the index of the opening quote of a key
ObjectItems(s, i, acc) ==
    LET key == ScanString(s, i + 1, <<>>)
        colon == SkipWs(s, key.n)
        val == ScanOnce(s, SkipWs(s, colon + 1))
        after == SkipWs(s, val.n)
        items == DictSet(acc, key.v.v, val.v)
        nextKey == SkipWs(s, after + 1)
    IN  IF ~key.ok \/ At(s, colon) # ":" THEN ParseFail
        ELSE IF ~val.ok THEN ParseFail
        ELSE IF At(s, after) = "}" THEN ParseOk(PyDict(items), after + 1)
        ELSE IF At(s, after) # "," \/ At(s, nextKey) # QUOTE THEN ParseFail
        ELSE ObjectItems(s, nextKey, items)

\* JSONArray's loop: i is the index where a value must start
ArrayItems(s, i, acc) ==
    LET val == ScanOnce(s, i)
        after == SkipWs(s, val.n)
    IN  IF ~val.ok THEN ParseFail
        ELSE IF At(s, after) = "]"
             THEN ParseOk(PyList(Append(acc, val.v)), after + 1)
        ELSE IF At(s, after) # "," THEN ParseFail
        ELSE ArrayItems(s, SkipWs(s, after + 1), Append(acc, val.v))

\* scan_once: the value that starts at index i
ScanOnce(s, i) ==
    LET c == At(s, i)
    IN  CASE c = QUOTE -> ScanString(s, i + 1, <<>>)
          [] c = "{" ->
                LET j == SkipWs(s, i + 1)
                IN  IF At(s, j) = "}" THEN ParseOk(PyDict(<<>>), j + 1)
                    ELSE IF At(s, j) # QUOTE THEN ParseFail
                    ELSE ObjectItems(s, j, <<>>)
          [] c = "[" ->
                LET j == SkipWs(s, i + 1)
                IN  IF At(s, j) = "]" THEN ParseOk(PyList(<<>>), j + 1)
                    ELSE ArrayItems(s, j, <<>>)
          [] c = "n" /\ StartsWith(s, i, <<"n", "u", "l", "l">>) ->
                ParseOk(PyNone, i + 4)
          [] c = "t" /\ StartsWith(s, i, <<"t", "r", "u", "e">>) ->
                ParseOk(PyBool(TRUE), i + 4)
          [] c = "f" /\ StartsWith(s, i, <<"f", "a", "l", "s", "e">>) ->
                ParseOk(PyBool(FALSE), i + 5)
          [] IsDigit(c) -> ScanNumber(s, i)
          [] OTHER -> ParseFail

\* json.loads(payload): ok = FALSE for a JSONDecodeError ("Expecting value",
\* "Extra data", ...)
Loads(s) ==
    LET r == ScanOnce(s, SkipWs(s, 1))
    IN  IF r.ok /\ SkipWs(s, r.n) = Len(s) + 1 THEN [ok |-> TRUE, v |-> r.v]
        ELSE [ok |-> FALSE, v |-> PyNone]

(***************************************************************************)
(* The store location: _get_db_path and os.path.dirname                    *)
(***************************************************************************)
\* "data/review_cache.db"
DEFAULT_DB_PATH ==
    <<"d", "a", "t", "a", "/", "r", "e", "v", "i", "e", "w", "_",
      "c", "a", "c", "h", "e", ".", "d", "b">>

RECURSIVE LStrip(_)
LStrip(s) == IF s # <<>> /\ IsSpace(Head(s)) THEN LStrip(Tail(s)) ELSE s

RECURSIVE RStrip(_)
RStrip(s) ==
    IF s # <<>> /\ IsSpace(s[Len(s)]) THEN RStrip(SubSeq(s, 1, Len(s) - 1))
    ELSE s

\* str.strip()
Strip(s) == RStrip(LStrip(s))

\* env is os.environ.get(_DB_ENV_NAME): PyNone when unset
GetDbPath(env) ==
    IF Truthy(env) /\ Strip(env.v) # <<>> THEN Strip(env.v)
    ELSE DEFAULT_DB_PATH

\* os.path.dirname: what precedes the last "/", without trailing slashes
\* (a head made of slashes only is kept)
LastSlash(s) ==
    IF \E i \in 1..Len(s) : s[i] = "/"
    THEN CHOOSE i \in 1..Len(s) :
            s[i] = "/" /\ \A j \in (i + 1)..Len(s) : s[j] # "/"
    ELSE 0

RECURSIVE RStripSlash(_)
RStripSlash(s) ==
    IF s # <<>> /\ s[Len(s)] = "/" THEN RStripSlash(SubSeq(s, 1, Len(s) - 1))
    ELSE s

Dirname(path) ==
    LET head == SubSeq(path, 1, LastSlash(path))
    IN  IF head # <<>> /\ \E i \in 1..Len(head) : head[i] # "/"
        THEN RStripSlash(head) ELSE head

(***************************************************************************)
(* Bounds and inputs                                                       *)
(***************************************************************************)
\* calls of get / put started in one run, over all callers
MaxCalls == 3
\* records of a diff set given to the fingerprint alone
MaxRecords == 2

\* the callers: threads or processes of the review pipeline
Procs == {"w1", "w2"}

Providers == {"openai", "gemini"}
Models == {"gpt-4", "gpt-5"}

K_content == <<"c", "o", "n", "t", "e", "n", "t">>
K_elapsed == <<"e", "l", "a", "p", "s", "e", "d", "_", "s", "e", "c", "o", "n",
               "d", "s">>
K_total == <<"t", "o", "t", "a", "l", "_", "t", "o", "k", "e", "n", "s">>
A_py == <<"a", ".", "p", "y">>

\* the diff sets a caller passes; DiffSur's diff text holds a lone surrogate
DiffX == << Change(A_py, A_py, FALSE, FALSE, FALSE, <<"+", "x">>) >>
DiffY == << Change(A_py, A_py, FALSE, FALSE, FALSE, <<"+", "y">>) >>
DiffSur == << Change(A_py, A_py, FALSE, FALSE, FALSE, <<"+", SURROGATE>>) >>
ChangesInputs == {DiffX, DiffY, DiffSur}

\* the results a caller stores; ResultOpaque holds an object json has no
\* encoder for
ResultLGTM ==
    PyDict(<< <<K_content, PyStr(<<"L", "G", "T", "M">>)>>,
              <<K_elapsed, PyFloat(1, <<"5">>)>>,
              <<K_total, PyNone>> >>)
ResultQuoted ==
    PyDict(<< <<K_content, PyStr(<<QUOTE, HANGUL, QUOTE, BSLASH, NL>>)>>,
              <<K_elapsed, PyFloat(0, <<"2", "5">>)>>,
              <<K_total, PyInt(120)>> >>)
ResultOpaque == PyDict(<< <<K_content, PyOpaque>> >>)
Results == {ResultLGTM, ResultQuoted, ResultOpaque}

\* values of REVIEW_CACHE_DB_PATH: unset, blank, a padded file name
EnvUnset == PyNone
EnvBlank == PyStr(<<" ">>)
EnvOverride == PyStr(<<" ", "c", ".", "d", "b", " ">>)
EnvValues == {EnvUnset, EnvBlank, EnvOverride}

DbPaths == {GetDbPath(e) : e \in EnvValues}

\* The arguments the callers of one specification draw from.
\* Concurrent callers of one provider and model:
MainWorld ==
    [procs |-> Procs, providers |-> {"openai"}, models |-> {"gpt-4"},
     changes |-> ChangesInputs, results |-> Results, track |-> FALSE]
\* Callers while the environment changes:
EnvWorld ==
    [procs |-> Procs, providers |-> {"openai"}, models |-> {"gpt-4"},
     changes |-> {DiffX}, results |-> {ResultLGTM}, track |-> FALSE]
\* Callers while stored payloads are overwritten out-of-band:
CorruptWorld ==
    [procs |-> Procs, providers |-> {"openai"}, models |-> {"gpt-4"},
     changes |-> {DiffX}, results |-> {ResultLGTM}, track |-> FALSE]
\* Callers of one provider and model whose two diff sets differ only in
\* where a newline and a label stand, in the old path or in the new one:
DiffA ==
    << Change(<<"a">>, <<"b", NL>> \o S_new_path \o <<"c">>,
              FALSE, FALSE, FALSE, <<>>) >>
DiffB ==
    << Change(<<"a", NL>> \o S_new_path \o <<"b">>, <<"c">>,
              FALSE, FALSE, FALSE, <<>>) >>
CollideWorld ==
    [procs |-> Procs, providers |-> {"openai"}, models |-> {"gpt-4"},
     changes |-> {DiffA, DiffB}, results |-> {ResultLGTM}, track |-> FALSE]
\* One caller of two providers, two models and two diff sets:
IsoWorld ==
    [procs |-> {"w1"}, providers |-> Providers, models |-> Models,
     changes |-> {DiffX, DiffY}, results |-> {ResultLGTM, ResultQuoted},
     track |-> FALSE]
\* Callers that remember the faults of their earlier calls:
PastWorld ==
    [procs |-> Procs, providers |-> {"openai"}, models |-> {"gpt-4"},
     changes |-> {DiffX}, results |-> {ResultLGTM}, track |-> TRUE]

\* payloads written out-of-band: none is the json.dumps of a review result
P_empty == <<>>
P_truncated == SubSeq(Encode(ResultLGTM), 1, 12)
P_number == <<"4", "2">>
P_null == <<"n", "u", "l", "l">>
P_other == <<"{", QUOTE, "x", QUOTE, ":", " ", "[", "1", "]", "}">>
CorruptPayloads == {P_empty, P_truncated, P_number, P_null, P_other}

(***************************************************************************)
(* Monitoring (src/src/llm_monitoring.py): environment and values          *)
(***************************************************************************)
\* env is os.environ.get("LLM_MONITORING_WEBHOOK_URL"): None when unset or
\* blank, else the stripped value
GetWebhookUrl(env) ==
    IF ~Truthy(env) \/ Strip(env.v) = <<>> THEN PyNone ELSE PyStr(Strip(env.v))

S_inf == <<"i", "n", "f">>
S_nan == <<"n", "a", "n">>

AllDigits(s) == \A i \in 1..Len(s) : IsDigit(s[i])
AllZeros(s) == \A i \in 1..Len(s) : s[i] = "0"

\* the first position of character c in s, 0 when there is none
RECURSIVE IndexOf(_, _, _)
IndexOf(s, c, i) ==
    IF i > Len(s) THEN 0 ELSE IF s[i] = c THEN i ELSE IndexOf(s, c, i + 1)

FloatFail == [ok |-> FALSE, kind |-> "none", positive |-> FALSE]

\* float(s) for a str: surrounding whitespace is dropped, then an optional
\* sign, then inf, nan or decimal digits with at most one point and at least
\* one digit (texts with exponents or underscores are not among the inputs);
\* anything else raises ValueError
ParseFloat(s) ==
    LET t == Strip(s)
        signed == t # <<>> /\ Head(t) \in {"+", "-"}
        neg == t # <<>> /\ Head(t) = "-"
        body == IF signed THEN Tail(t) ELSE t
        dot == IndexOf(body, ".", 1)
        whole == IF dot = 0 THEN body ELSE SubSeq(body, 1, dot - 1)
        frac == IF dot = 0 THEN <<>> ELSE SubSeq(body, dot + 1, Len(body))
    IN  IF body = S_inf
        THEN [ok |-> TRUE, kind |-> "inf", positive |-> ~neg]
        ELSE IF body = S_nan
        THEN [ok |-> TRUE, kind |-> "nan", positive |-> FALSE]
        ELSE IF /\ AllDigits(whole) /\ AllDigits(frac)
                /\ Len(whole) + Len(frac) > 0
        THEN [ok |-> TRUE, kind |-> "finite",
              positive |-> ~neg /\ ~(AllZeros(whole) /\ AllZeros(frac))]
        ELSE FloatFail

\* os.environ.get("LLM_MONITORING_TIMEOUT_SECONDS", "3")
TimeoutText(env) == IF env = PyNone THEN <<"3">> ELSE env.v

\* values of LLM_MONITORING_WEBHOOK_URL: unset, blank, a padded URL
UrlUnset == PyNone
UrlBlank == PyStr(<<" ", " ">>)
UrlSet == PyStr(<<" ", "h", "t", "t", "p", ":", "/", "/", "m", " ">>)
UrlValues == {UrlUnset, UrlBlank, UrlSet}

\* values of LLM_MONITORING_TIMEOUT_SECONDS: unset, usable ones, ones that
\* float() takes and requests refuses, ones that float() refuses
TimeoutUnset == PyNone
TimeoutValues ==
    {TimeoutUnset, PyStr(<<" ", "2", ".", "5">>), PyStr(<<"0">>),
     PyStr(<<"-", "1">>), PyStr(S_nan), PyStr(<<>>),
     PyStr(<<"3", "s">>)}

\* the four send_* functions
MonFunctions ==
    {"send_merge_request_llm_success", "send_push_llm_success",
     "send_merge_request_llm_error", "send_push_llm_error"}

\* no payload built
NoPayload == [status |-> "", event |-> "", content |-> <<>>, length |-> 0]

\* monitoring between calls, its two environment variables unset
MonIdle ==
    [url |-> UrlUnset, timeout |-> TimeoutUnset, pc |-> "idle", fn |-> "",
     result |-> PyNone, entryUrl |-> PyNone, payload |-> NoPayload,
     requests |-> 0, logged |-> 0, started |-> 0]

(***************************************************************************)
(* Keys, rows and the initial state                                        *)
(***************************************************************************)
Key(provider, model, diff_hash) == <<provider, model, diff_hash>>
RowKey(row) == Key(row.provider, row.model, row.diff_hash)

\* what a call was asked to store or look up, and where
PutAt(path, st) == <<path, st.provider, st.model, st.changes>>
Put(st) == PutAt(st.path, st)

NoTxn == [active |-> FALSE, rows |-> {}]

\* a caller between calls
IdleProc ==
    [pc |-> "idle", op |-> "none", provider |-> "", model |-> "",
     changes |-> <<>>, result |-> PyNone, diff_hash |-> <<>>, path |-> <<>>,
     handle |-> "none", conn |-> "unbound", txn |-> NoTxn, ret |-> PyNone,
     fault |-> "none", seen |-> <<>>, seenOob |-> FALSE, hit |-> FALSE,
     committed |-> FALSE, wrote |-> {}, over |-> FALSE, track |-> FALSE,
     past |-> {}]

EmptyDb == [exists |-> FALSE, table |-> FALSE, rows |-> {}]

\* the store before its first use
InitStore ==
    /\ dirs = {}
    /\ db = [path \in DbPaths |-> EmptyDb]
    /\ lock = [path \in DbPaths |-> "none"]
    /\ proc = [p \in Procs |-> IdleProc]
    /\ leaked = 0
    /\ calls = 0
    /\ hist = [path \in DbPaths |-> <<>>]
    /\ oob = {}
    /\ written = {}
    /\ effect = [p \in Procs |-> FALSE]

Init ==
    /\ environ = EnvUnset
    /\ InitStore
    /\ fpArgs = <<>>
    /\ fpOut = <<>>
    /\ mon = MonIdle

(***************************************************************************)
(* The table                                                               *)
(***************************************************************************)
Row(provider, model, diff_hash, result_json) ==
    [provider |-> provider, model |-> model, diff_hash |-> diff_hash,
     result_json |-> result_json]

\* SelectRows with a WHERE clause on diff_hash alone
SelectRowsByHash(rows, key) == {r \in rows : r.diff_hash = key[3]}

\* SELECT result_json ... WHERE provider = ? AND model = ? AND diff_hash = ?
SelectRows(rows, key) == {r \in rows : RowKey(r) = key}

\* Upsert as INSERT OR IGNORE: an existing row keeps its payload
UpsertIgnore(rows, row) ==
    IF \E r \in rows : RowKey(r) = RowKey(row) THEN rows
    ELSE rows \cup {row}

\* Upsert as a plain INSERT into a table without its primary key
UpsertAppend(rows, row) == rows \cup {row}

\* Upsert as INSERT into a table emptied first
UpsertAlone(rows, row) == {row}

\* INSERT ... ON CONFLICT(provider, model, diff_hash) DO UPDATE SET
\* result_json = excluded.result_json
Upsert(rows, row) ==
    IF \E r \in rows : RowKey(r) = RowKey(row)
    THEN {IF RowKey(r) = RowKey(row)
          THEN [r EXCEPT !.result_json = row.result_json] ELSE r : r \in rows}
    ELSE rows \cup {row}

AllRows(d) == [path \in DbPaths |-> d[path].rows]

\* the results committed under a key of a path, oldest first
HistOf(h, path, key) ==
    IF key \in DOMAIN h[path] THEN h[path][key] ELSE <<>>

\* the committed results of a key the model remembers: the last two
Remember(h, result) ==
    IF h = <<>> THEN <<result>> ELSE <<h[Len(h)], result>>

(***************************************************************************)
(* The except clauses of the two operations                                *)
(***************************************************************************)
\* GetExcept letting the exception leave the call
GetExceptRaise(st, step) == [st EXCEPT !.fault = step, !.pc = "raised"]

\* get: log, return None (then the finally clause runs)
GetExcept(st, step) ==
    [st EXCEPT !.fault = step, !.ret = PyNone, !.pc = "close"]

\* put: log (then the finally clause runs)
PutExcept(st, step) == [st EXCEPT !.fault = step, !.pc = "close"]

\* Except letting the exception leave the call
ExceptRaise(st, step) == [st EXCEPT !.fault = step, !.pc = "raised"]

Except(st, step) ==
    IF st.op = "get" THEN GetExcept(st, step) ELSE PutExcept(st, step)

SetProc(p, st) == proc' = [proc EXCEPT ![p] = st]

\* bookkeeping of `effect`, conjoined to every step of caller p
Observe(p) ==
    effect' = [effect EXCEPT ![p] =
                 IF proc[p].pc \in {"idle", "raised"} THEN FALSE
                 ELSE @ \/ AllRows(db') # AllRows(db)]

(***************************************************************************)
(* Steps of a call                                                         *)
(***************************************************************************)
\* where a call goes after `diff_hash = _build_diff_hash(changes)`, the
\* statement before the try: into the try, or out with the exception
AfterHash(h) == IF h.ok THEN "connect" ELSE "raised"

\* The caller enters get_cached_review_for_changes or
\* put_cached_review_for_changes with arguments of world W.
Call(p, W) ==
    /\ proc[p].pc \in {"idle", "raised"}
    /\ calls < MaxCalls
    /\ \E op \in {"get", "put"}, pr \in W.providers, m \in W.models,
          ch \in W.changes :
          \E r \in (IF op = "put" THEN W.results ELSE {PyNone}) :
             LET h == BuildDiffHash(ch)
             IN  SetProc(p, [IdleProc EXCEPT
                                !.pc = AfterHash(h),
                                !.op = op, !.provider = pr, !.model = m,
                                !.changes = ch, !.result = r,
                                !.diff_hash = h.digest,
                                !.track = W.track,
                                !.past = proc[p].past])
    /\ calls' = calls + 1
    /\ UNCHANGED <<environ, dirs, db, lock, leaked, hist, oob, written, fpArgs,
                   fpOut, mon>>
    /\ Observe(p)

\* what _get_connection leaves behind when its CREATE TABLE raises: the
\* connection it opened is not closed, and the facade's `conn` stays unbound
SchemaFailure(st) == [st EXCEPT !.handle = "open", !.conn = "unbound"]

\* _get_connection: read the path, create its directory, sqlite3.connect
\* (which opens and creates the file), CREATE TABLE IF NOT EXISTS, return
\* conn.
\* CREATE TABLE without IF NOT EXISTS: fails on a table that exists
TableCreatableOnce(d) == ~d.table

\* CREATE TABLE IF NOT EXISTS does not fail because the table exists
TableCreatable(d) == TRUE

\* CREATE TABLE that starts from an empty table
CreateTableFresh(d) == [exists |-> TRUE, table |-> TRUE, rows |-> {}]

\* sqlite3.connect created the file; CREATE TABLE IF NOT EXISTS creates
\* the table when absent and leaves an existing one as it is
CreateTable(d) == [d EXCEPT !.exists = TRUE, !.table = TRUE]

GetConnection(p) ==
    /\ proc[p].pc = "connect"
    /\ LET path == GetDbPath(environ)
           directory == Dirname(path)
           made == IF directory # <<>> THEN dirs \cup {directory} ELSE dirs
           st == [proc[p] EXCEPT !.path = path]
       IN  \/ /\ directory # <<>>
              /\ UNCHANGED <<dirs, db>>
              /\ SetProc(p, Except(st, "makedirs"))
           \/ /\ dirs' = made
              /\ db' = db
              /\ SetProc(p, Except(st, "connect"))
           \/ /\ dirs' = made
              /\ db' = [db EXCEPT ![path].exists = TRUE]
              /\ SetProc(p, Except(SchemaFailure(st), "schema"))
           \/ /\ TableCreatable(db[path])
              /\ dirs' = made
              /\ db' = [db EXCEPT ![path] = CreateTable(@)]
              /\ SetProc(p, [st EXCEPT
                               !.handle = "open", !.conn = "bound",
                               !.over = st.track /\ db[path].table
                                                 /\ db[path].rows # {},
                               !.pc = IF st.op = "get" THEN "select"
                                      ELSE "insert"])
    /\ UNCHANGED <<environ, lock, leaked, calls, hist, oob, written, fpArgs,
                   fpOut, mon>>
    /\ Observe(p)

\* what get returns for the payload of the row it fetched
Decode(st, payload) ==
    LET data == Loads(payload)
    IN  IF data.ok THEN [st EXCEPT !.ret = data.v, !.pc = "close"]
        ELSE GetExcept(st, "loads")

\* get: the SELECT, fetchone, `if not row`, json.loads(payload)
Select(p) ==
    /\ proc[p].pc = "select"
    /\ LET st == proc[p]
           key == Key(st.provider, st.model, st.diff_hash)
           found == SelectRows(db[st.path].rows, key)
           saw == [st EXCEPT !.seen = HistOf(hist, st.path, key),
                             !.seenOob = <<st.path, key>> \in oob,
                             !.hit = found # {},
                             !.wrote = {pa \in DbPaths :
                                           PutAt(pa, st) \in written}]
       IN  \/ SetProc(p, GetExcept(st, "select"))
           \/ /\ found = {}
              /\ SetProc(p, [saw EXCEPT !.ret = PyNone, !.pc = "close"])
           \/ \E row \in found : SetProc(p, Decode(saw, row.result_json))
    /\ UNCHANGED <<environ, dirs, db, lock, leaked, calls, hist, oob,
                   written, fpArgs, fpOut, mon>>
    /\ Observe(p)

\* put: json.dumps(result), then the INSERT, which opens a transaction and
\* takes the database's write lock; its rows stay private until the commit
Insert(p) ==
    /\ proc[p].pc = "insert"
    /\ LET st == proc[p]
           payload == Dumps(st.result)
           row == Row(st.provider, st.model, st.diff_hash, payload.s)
       IN  \/ /\ ~payload.ok
              /\ lock' = lock
              /\ SetProc(p, PutExcept(st, "dumps"))
           \/ /\ payload.ok
              /\ lock' = lock
              /\ SetProc(p, PutExcept(st, "insert"))
           \/ /\ payload.ok
              /\ lock[st.path] = "none"
              /\ lock' = [lock EXCEPT ![st.path] = p]
              /\ SetProc(p, [st EXCEPT
                               !.txn = [active |-> TRUE,
                                        rows |-> Upsert(db[st.path].rows, row)],
                               !.pc = "commit"])
    /\ UNCHANGED <<environ, dirs, db, leaked, calls, hist, oob, written, fpArgs,
                   fpOut, mon>>
    /\ Observe(p)

\* Published with the transaction's rows added beside the old ones
PublishedAppend(rows, txn) == rows \cup txn.rows

\* the table once a transaction commits
Published(rows, txn) == txn.rows

\* RolledBack keeping what the failed transaction wrote
RolledBackPartly(rows, txn) == txn.rows

\* the table once a commit fails: the transaction stays open, and closing
\* the connection discards it
RolledBack(rows, txn) == rows

\* put: conn.commit() publishes the transaction's rows at once
Commit(p) ==
    /\ proc[p].pc = "commit"
    /\ LET st == proc[p]
           key == Key(st.provider, st.model, st.diff_hash)
       IN  \/ /\ db' = [db EXCEPT
                          ![st.path].rows = Published(@, st.txn)]
              /\ lock' = [lock EXCEPT ![st.path] = "none"]
              /\ hist' = [hist EXCEPT
                            ![st.path] = (key :> Remember(HistOf(hist, st.path, key),
                                                          st.result)) @@ @]
              /\ oob' = oob \ {<<st.path, key>>}
              /\ written' = written \cup {Put(st)}
              /\ SetProc(p, [st EXCEPT !.txn = NoTxn, !.committed = TRUE,
                                       !.pc = "close"])
           \/ /\ db' = [db EXCEPT
                          ![st.path].rows = RolledBack(@, st.txn)]
              /\ UNCHANGED <<lock, hist, oob, written>>
              /\ SetProc(p, PutExcept(st, "commit"))
    /\ UNCHANGED <<environ, dirs, leaked, calls, fpArgs, fpOut, mon>>
    /\ Observe(p)

\* The finally clause, then the return to the caller.  conn.close() rolls
\* back an open transaction; with `conn` unbound it raises UnboundLocalError,
\* which is swallowed, and a connection _get_connection left open is closed
\* only if the interpreter has finalized it by now.
\* Unlock that leaves the write lock with the closed connection
UnlockNever(lk, st) == lk

\* conn.close() ends an open transaction, and with it its write lock
Unlock(lk, st) ==
    IF st.txn.active THEN [lk EXCEPT ![st.path] = "none"] ELSE lk

\* what a caller that remembers keeps of the call that ends: its fault
Past(st) ==
    IF st.track THEN st.past \cup ({st.fault} \ {"none"}) ELSE {}

Close(p) ==
    /\ proc[p].pc = "close"
    /\ LET st == proc[p]
       IN  \/ /\ st.conn = "bound"
              /\ lock' = Unlock(lock, st)
              /\ leaked' = leaked
           \/ /\ st.conn = "unbound"
              /\ lock' = lock
              /\ leaked' = leaked
           \/ /\ st.conn = "unbound"
              /\ st.handle = "open"
              /\ lock' = lock
              /\ leaked' = leaked + 1
    /\ SetProc(p, [IdleProc EXCEPT !.past = Past(proc[p])])
    /\ UNCHANGED <<environ, dirs, db, calls, hist, oob, written, fpArgs, fpOut, mon>>
    /\ Observe(p)

Next ==
    \/ \E p \in MainWorld.procs : Call(p, MainWorld)
    \/ \E p \in MainWorld.procs : GetConnection(p)
    \/ \E p \in MainWorld.procs : Select(p)
    \/ \E p \in MainWorld.procs : Insert(p)
    \/ \E p \in MainWorld.procs : Commit(p)
    \/ \E p \in MainWorld.procs : Close(p)

Spec == Init /\ [][Next]_vars

(***************************************************************************)
(* The environment of the callers                                          *)
(***************************************************************************)
\* REVIEW_CACHE_DB_PATH is set, changed or unset while the service runs
SetEnv ==
    /\ \E e \in EnvValues \ {environ} : environ' = e
    /\ UNCHANGED <<dirs, db, lock, proc, leaked, calls, hist, oob, written,
                   effect, fpArgs, fpOut, mon>>

\* a stored payload is overwritten out-of-band (another writer of the file)
Corrupt ==
    /\ \E path \in DbPaths, payload \in CorruptPayloads :
          /\ lock[path] = "none"
          /\ \E row \in db[path].rows :
                /\ row.result_json # payload
                /\ db' = [db EXCEPT
                            ![path].rows =
                               (@ \ {row}) \cup
                               {[row EXCEPT !.result_json = payload]}]
                /\ oob' = oob \cup {<<path, RowKey(row)>>}
                /\ hist' = [hist EXCEPT ![path] = (RowKey(row) :> <<>>) @@ @]
    /\ UNCHANGED <<environ, dirs, lock, proc, leaked, calls, written, effect,
                   fpArgs, fpOut, mon>>

NextEnv ==
    \/ \E p \in EnvWorld.procs : Call(p, EnvWorld)
    \/ \E p \in EnvWorld.procs : GetConnection(p)
    \/ \E p \in EnvWorld.procs : Select(p)
    \/ \E p \in EnvWorld.procs : Insert(p)
    \/ \E p \in EnvWorld.procs : Commit(p)
    \/ \E p \in EnvWorld.procs : Close(p)
    \/ SetEnv

\* the callers while the environment variable changes
SpecEnv == Init /\ [][NextEnv]_vars

NextCorrupt ==
    \/ \E p \in CorruptWorld.procs : Call(p, CorruptWorld)
    \/ \E p \in CorruptWorld.procs : GetConnection(p)
    \/ \E p \in CorruptWorld.procs : Select(p)
    \/ \E p \in CorruptWorld.procs : Insert(p)
    \/ \E p \in CorruptWorld.procs : Commit(p)
    \/ \E p \in CorruptWorld.procs : Close(p)
    \/ Corrupt

\* the callers while stored payloads are overwritten out-of-band
SpecCorrupt == Init /\ [][NextCorrupt]_vars

NextCollide ==
    \/ \E p \in CollideWorld.procs : Call(p, CollideWorld)
    \/ \E p \in CollideWorld.procs : GetConnection(p)
    \/ \E p \in CollideWorld.procs : Select(p)
    \/ \E p \in CollideWorld.procs : Insert(p)
    \/ \E p \in CollideWorld.procs : Commit(p)
    \/ \E p \in CollideWorld.procs : Close(p)

\* the callers on diff sets that differ in their paths only
SpecCollide == Init /\ [][NextCollide]_vars

NextIso ==
    \/ \E p \in IsoWorld.procs : Call(p, IsoWorld)
    \/ \E p \in IsoWorld.procs : GetConnection(p)
    \/ \E p \in IsoWorld.procs : Select(p)
    \/ \E p \in IsoWorld.procs : Insert(p)
    \/ \E p \in IsoWorld.procs : Commit(p)
    \/ \E p \in IsoWorld.procs : Close(p)

\* the callers of several providers and models
SpecIso == Init /\ [][NextIso]_vars

NextPast ==
    \/ \E p \in PastWorld.procs : Call(p, PastWorld)
    \/ \E p \in PastWorld.procs : GetConnection(p)
    \/ \E p \in PastWorld.procs : Select(p)
    \/ \E p \in PastWorld.procs : Insert(p)
    \/ \E p \in PastWorld.procs : Commit(p)
    \/ \E p \in PastWorld.procs : Close(p)

\* the callers, each with the faults of its earlier calls
SpecPast == Init /\ [][NextPast]_vars

(***************************************************************************)
(* Monitoring: the send_* functions and _post_payload                      *)
(***************************************************************************)
CacheVars ==
    <<environ, dirs, db, lock, proc, leaked, calls, hist, oob, written,
      effect, fpArgs, fpOut>>

\* the results handed to the success functions: with content, with padded
\* content, without content
ResultPadded == PyDict(<< <<K_content, PyStr(<<" ", "o", "k", NL>>)>> >>)
ResultBare == PyDict(<<>>)
MonResults == {ResultLGTM, ResultPadded, ResultBare}

MonIsSuccess(fn) ==
    fn \in {"send_merge_request_llm_success", "send_push_llm_success"}
MonEvent(fn) ==
    IF fn \in {"send_merge_request_llm_success",
               "send_merge_request_llm_error"}
    THEN "merge_request_review" ELSE "push_review"

\* the payload a send_* function builds; content is
\* (llm_result.get("content") or "").strip()
MonPayload(fn, result) ==
    IF MonIsSuccess(fn)
    THEN LET content == Strip(OrEmpty(DictGet(result, K_content, PyNone)))
         IN  [status |-> "success", event |-> MonEvent(fn),
              content |-> content, length |-> Len(content)]
    ELSE [status |-> "error", event |-> MonEvent(fn),
          content |-> <<>>, length |-> 0]

\* what requests.post can come to: a response with its status code, or an
\* exception; a timeout that is not a positive number is refused with a
\* ValueError before anything is sent
PostOutcomes(timeout) ==
    IF timeout.kind = "finite" /\ timeout.positive
    THEN {[sent |-> TRUE, status |-> 200, raised |-> FALSE],
          [sent |-> TRUE, status |-> 404, raised |-> FALSE],
          [sent |-> TRUE, status |-> 500, raised |-> FALSE],
          [sent |-> TRUE, status |-> 0, raised |-> TRUE],
          [sent |-> FALSE, status |-> 0, raised |-> TRUE]}
    ELSE {[sent |-> FALSE, status |-> 0, raised |-> TRUE]}

\* a send_* function up to its call of _post_payload: return when there is
\* no webhook URL, else build the payload
MonSend ==
    /\ mon.pc \in {"idle", "raised"}
    /\ mon.started < MaxCalls
    /\ \E fn \in MonFunctions :
          \E result \in (IF MonIsSuccess(fn) THEN MonResults ELSE {PyNone}) :
             LET url == GetWebhookUrl(mon.url)
                 st == [mon EXCEPT !.fn = fn, !.result = result,
                                   !.entryUrl = url, !.requests = 0,
                                   !.logged = 0, !.payload = NoPayload,
                                   !.started = @ + 1]
             IN  mon' = IF url = PyNone THEN [st EXCEPT !.pc = "returned"]
                        ELSE [st EXCEPT !.pc = "post",
                                        !.payload = MonPayload(fn, result)]
    /\ UNCHANGED CacheVars

\* _post_payload: read the URL again, float() of the timeout setting
\* (before the try), then requests.post in the try
MonPostPayload ==
    /\ mon.pc = "post"
    /\ LET url == GetWebhookUrl(mon.url)
           timeout == ParseFloat(TimeoutText(mon.timeout))
       IN  IF url = PyNone THEN mon' = [mon EXCEPT !.pc = "returned"]
           ELSE IF ~timeout.ok THEN mon' = [mon EXCEPT !.pc = "raised"]
           ELSE \E o \in PostOutcomes(timeout) :
                   mon' = [mon EXCEPT
                             !.requests = IF o.sent THEN @ + 1 ELSE @,
                             !.logged = IF o.raised \/ o.status >= 400
                                        THEN @ + 1 ELSE @,
                             !.pc = "returned"]
    /\ UNCHANGED CacheVars

\* the send_* function returns to its caller
MonReturn ==
    /\ mon.pc = "returned"
    /\ mon' = [MonIdle EXCEPT !.url = mon.url, !.timeout = mon.timeout,
                              !.started = mon.started]
    /\ UNCHANGED CacheVars

\* the two environment variables are set, changed or unset
MonSetEnv ==
    /\ \/ \E u \in UrlValues \ {mon.url} : mon' = [mon EXCEPT !.url = u]
       \/ \E t \in TimeoutValues \ {mon.timeout} :
             mon' = [mon EXCEPT !.timeout = t]
    /\ UNCHANGED CacheVars

NextMon ==
    \/ MonSend
    \/ MonPostPayload
    \/ MonReturn
    \/ MonSetEnv

\* the monitoring functions under a changing environment
SpecMon == Init /\ [][NextMon]_vars

(***************************************************************************)
(* The fingerprint alone, on pairs of diff sets                            *)
(***************************************************************************)
\* paths: plain ones, and ones that hold a newline followed by a label
FpOld == {<<"a">>, <<"a", NL>> \o S_new_path \o <<"b">>}
FpNew == {<<"c">>, <<"b", NL>> \o S_new_path \o <<"c">>}
FpDiffs == {<<>>, <<"+">>}
FpRecords ==
    {Change(o, n, f1, f2, f3, d) :
        o \in FpOld, n \in FpNew, f1 \in BOOLEAN, f2 \in BOOLEAN,
        f3 \in BOOLEAN, d \in FpDiffs}

\* an empty change, and a change whose diff text holds the lines that end
\* one segment and begin the next
FpEmpty == Change(<<>>, <<>>, FALSE, FALSE, FALSE, <<>>)
FpHeader == SubSeq(Segment(FpEmpty), 1, Len(Segment(FpEmpty)) - 4)
FpEmbedded ==
    Change(<<>>, <<>>, FALSE, FALSE, FALSE, <<NL>> \o S_dashes \o FpHeader)
FpPlain == Change(<<"a">>, <<"c">>, FALSE, FALSE, FALSE, <<"+">>)

RECURSIVE SeqsUpTo(_, _)
SeqsUpTo(S, n) ==
    IF n = 0 THEN {<<>>}
    ELSE LET shorter == SeqsUpTo(S, n - 1)
         IN  shorter \cup {Append(q, x) : q \in shorter, x \in S}

FpDiffSets ==
    {<<r>> : r \in FpRecords \cup {FpEmbedded}}
        \cup SeqsUpTo({FpEmpty, FpPlain}, MaxRecords)

\* what _build_diff_hash computes for a diff set: the outcome, the bytes
\* fed to the hasher, the flags code of every change
FpResult(changes) ==
    [hash |-> BuildDiffHash(changes),
     bytes |-> CanonicalBytes(changes),
     flags |-> [i \in 1..Len(changes) |-> FlagsCode(changes[i])]]

InitFp ==
    /\ environ = EnvUnset
    /\ InitStore
    /\ fpArgs \in FpDiffSets \X FpDiffSets
    /\ fpOut = <<>>
    /\ mon = MonIdle

FpApply ==
    /\ fpArgs # <<>>
    /\ fpOut = <<>>
    /\ fpOut' = <<FpResult(fpArgs[1]), FpResult(fpArgs[2])>>
    /\ UNCHANGED <<environ, dirs, db, lock, proc, leaked, calls, hist, oob,
                   written, effect, fpArgs, mon>>

NextFp == FpApply

\* _build_diff_hash applied to two diff sets
SpecFp == InitFp /\ [][NextFp]_vars

(***************************************************************************)
(* Properties                                                              *)
(***************************************************************************)
InCall(p) == proc[p].pc \notin {"idle", "raised"}
CallKey(st) == Key(st.provider, st.model, st.diff_hash)
Newest(h) == h[Len(h)]
\* the steps of the store; json.loads of a fetched payload is not one
StorageSteps == {"makedirs", "connect", "schema", "select"}
WriteSteps == {"makedirs", "connect", "schema", "dumps", "insert", "commit"}
OpenHandles ==
    leaked + Cardinality({p \in Procs : proc[p].handle = "open"})

\* C1 (round trip): a put that met no fault has committed its result, and a
\* get that meets no storage fault and reads a key whose last write is the
\* commit of a put of r returns a value equal to r.
C1_RoundTrip ==
    \A p \in Procs :
        LET st == proc[p]
        IN  /\ (st.op = "put" /\ st.pc = "close" /\ st.fault = "none")
                  => st.committed
            /\ (/\ st.op = "get" /\ st.pc = "close"
                /\ st.fault \notin StorageSteps
                /\ st.seen # <<>>)
                  => st.ret = Newest(st.seen)

\* C1 witness: a get is about to return the stored result whose content
\* holds quotes, a backslash, a newline and a non-ASCII character.
C1_Witness ==
    \E p \in Procs :
        /\ proc[p].op = "get" /\ proc[p].pc = "close"
        /\ proc[p].fault = "none"
        /\ proc[p].seen # <<>>
        /\ proc[p].ret = ResultQuoted

\* C2 (read fault containment): a get in which any step failed (directory,
\* connect, schema, SELECT, json.loads) goes on to its finally clause with
\* None as its return value; the exception does not leave the call.
C2_ReadFaultContained ==
    \A p \in Procs :
        (proc[p].op = "get" /\ proc[p].fault # "none")
            => (proc[p].pc = "close" /\ proc[p].ret = PyNone)

\* C2 witness: a get whose json.loads failed on the payload it fetched.
C2_Witness ==
    \E p \in Procs :
        /\ proc[p].op = "get" /\ proc[p].pc = "close"
        /\ proc[p].fault = "loads" /\ proc[p].hit

\* C3 (write failure is a no-op): a put in which a step failed (directory,
\* connect, schema, json.dumps, INSERT, commit) goes on to its finally
\* clause, and no step of it has changed the stored rows.
C3_WriteFailureNoOp ==
    \A p \in Procs :
        (proc[p].op = "put" /\ proc[p].fault \in WriteSteps)
            => (proc[p].pc = "close" /\ ~effect[p] /\ ~proc[p].committed)

\* C3 witness: a put whose commit failed over a key that holds an entry.
C3_Witness ==
    \E p \in Procs :
        /\ proc[p].op = "put" /\ proc[p].pc = "close"
        /\ proc[p].fault = "commit"
        /\ HistOf(hist, proc[p].path, CallKey(proc[p])) # <<>>

\* C4 (no call ends in an exception), as claimed: no call of get or put
\* ever leaves with an exception, the fingerprint computation included.
C4_NoCallRaises == \A p \in Procs : proc[p].pc # "raised"

\* C5 (overwrite): a key whose last write is a commit holds exactly one
\* row, with the payload of the result committed last, and a get that
\* reads it after two commits returns the second result, not the first.
C5_Overwrite ==
    /\ \A path \in DbPaths :
          \A key \in DOMAIN hist[path] :
             hist[path][key] # <<>> =>
                SelectRows(db[path].rows, key) =
                    {Row(key[1], key[2], key[3],
                         Dumps(Newest(hist[path][key])).s)}
    /\ \A p \in Procs :
          LET st == proc[p]
          IN  (/\ st.op = "get" /\ st.pc = "close"
               /\ st.fault \notin StorageSteps
               /\ Len(st.seen) = 2)
                 => /\ st.ret = st.seen[2]
                    /\ (st.seen[1] # st.seen[2] => st.ret # st.seen[1])

\* C5 witness: a get returns the second of two different results committed
\* to its key.
C5_Witness ==
    \E p \in Procs :
        /\ proc[p].op = "get" /\ proc[p].pc = "close"
        /\ proc[p].fault = "none"
        /\ proc[p].seen = <<ResultLGTM, ResultQuoted>>
        /\ proc[p].ret = ResultQuoted

\* C6 (corrupt payload containment), as claimed: a get that fetches a
\* payload written out-of-band, none of which is the serialization of a
\* review result, returns None.
C6_CorruptPayloadAbsent ==
    \A p \in Procs :
        (/\ proc[p].op = "get" /\ proc[p].pc = "close"
         /\ proc[p].seenOob)
            => proc[p].ret = PyNone

\* C7 (handle discipline), as claimed: whenever no call is in progress, no
\* connection is open.
C7_NoHandleOutsideCalls ==
    (\A p \in Procs : ~InCall(p)) => OpenHandles = 0

\* C8 (fingerprint sensitivity), as claimed: two different diff sets feed
\* different bytes to the hasher, and so get different digests.
C8_CanonicalInjective ==
    (fpOut # <<>> /\ fpArgs[1] # fpArgs[2])
        => /\ fpOut[1].bytes # fpOut[2].bytes
           /\ fpOut[1].hash.digest # fpOut[2].hash.digest

C10_ConcurrentWriters ==
    /\ \A path \in DbPaths :
          \A row \in db[path].rows :
             \E r \in Results : Dumps(r).ok /\ row.result_json = Dumps(r).s
    /\ \A p \in Procs :
          (proc[p].op = "get" /\ proc[p].pc = "close")
             => (proc[p].ret = PyNone \/ proc[p].ret \in Results)
    /\ (\A p \in Procs : proc[p].op # "put")
          => \A path \in DbPaths :
                \A row \in db[path].rows :
                   /\ HistOf(hist, path, RowKey(row)) # <<>>
                   /\ row.result_json =
                         Dumps(Newest(HistOf(hist, path, RowKey(row)))).s
                   /\ SelectRows(db[path].rows, RowKey(row)) = {row}

\* C10 witness: two puts of different results to one key, in progress at
\* the same time, have both committed.
C10_Witness ==
    \E p, q \in Procs :
        /\ proc[p].op = "put" /\ proc[q].op = "put"
        /\ proc[p].pc = "close" /\ proc[q].pc = "close"
        /\ proc[p].committed /\ proc[q].committed
        /\ CallKey(proc[p]) = CallKey(proc[q])
        /\ proc[p].path = proc[q].path
        /\ proc[p].result # proc[q].result

\* the rows of a table, published or in a transaction, no two under one key
OnePerKey(rows) ==
    \A r1, r2 \in rows : RowKey(r1) = RowKey(r2) => r1 = r2

\* C11 (key uniqueness): in every state, whatever puts have run and however
\* they interleaved, the table of every database holds at most one row per
\* (provider, model, diff_hash), and so do the rows of every open
\* transaction.
C11_KeyUnique ==
    /\ \A path \in DbPaths : OnePerKey(db[path].rows)
    /\ \A p \in Procs : OnePerKey(proc[p].txn.rows)

\* C11 witness: a put of another result is being committed over a key that
\* holds an entry, beside an entry of a second key.
C11_Witness ==
    \E p \in Procs :
        /\ proc[p].pc = "commit"
        /\ \E r \in db[proc[p].path].rows :
              /\ RowKey(r) = CallKey(proc[p])
              /\ r.result_json # Dumps(proc[p].result).s
        /\ Cardinality(db[proc[p].path].rows) = 2

\* C12 (miss-on-absence), as claimed: a get for a diff set that no put under
\* the same provider and model had stored when its SELECT ran returns None,
\* whatever other diff sets were stored under that provider and model.
C12_MissOnAbsence ==
    \A p \in Procs :
        (/\ proc[p].op = "get" /\ proc[p].pc = "close"
         /\ proc[p].path \notin proc[p].wrote)
            => proc[p].ret = PyNone

KeysOf(rows) == {RowKey(r) : r \in rows}

\* the callers that are committing a put to `key` of `path` in this step
Committing(path, key) ==
    {p \in Procs : /\ proc[p].pc = "commit" /\ proc'[p].committed
                   /\ proc[p].path = path /\ CallKey(proc[p]) = key}

\* C13 (entries are never deleted): no step of any get or put, successful
\* or failed, removes the entry of a key; and a step changes the payload of
\* an existing entry only as the commit of a put to that same key.
C13_NeverDeleted ==
    [][\A path \in DbPaths :
          /\ KeysOf(db[path].rows) \subseteq KeysOf(db'[path].rows)
          /\ \A r \in db[path].rows :
                r \notin db'[path].rows
                   => Committing(path, RowKey(r)) # {}]_vars

\* C13 witness: a key still holds the entry of an earlier put while a put
\* to another key has committed and a later call has failed to connect.
C13_Witness ==
    \E p, q \in Procs :
        /\ proc[p].op = "put" /\ proc[p].pc = "close" /\ proc[p].committed
        /\ proc[q].pc = "close" /\ proc[q].fault = "connect"
        /\ \E r \in db[proc[p].path].rows : RowKey(r) # CallKey(proc[p])

\* the payload the model expects under a key: that of the last commit
Expected(path, key) == Dumps(Newest(HistOf(hist, path, key))).s

\* C14 (no persistent error state): once no call is in progress, whatever
\* calls have failed before, no write lock is held and the table holds
\* exactly the entries of the committed puts; and a call of a caller whose
\* earlier calls failed behaves as any call: without a fault its put
\* commits and its get returns the result committed last, or None for a key
\* without entry.
C14_NoErrorState ==
    /\ (\A p \in Procs : ~InCall(p))
          => \A path \in DbPaths :
                /\ lock[path] = "none"
                /\ \A r \in db[path].rows :
                      /\ HistOf(hist, path, RowKey(r)) # <<>>
                      /\ r.result_json = Expected(path, RowKey(r))
                /\ \A key \in DOMAIN hist[path] :
                      hist[path][key] # <<>> => key \in KeysOf(db[path].rows)
    /\ \A p \in Procs :
          LET st == proc[p]
          IN  (st.past # {} /\ st.pc = "close" /\ st.fault = "none")
                 => /\ st.op = "put" => st.committed
                    /\ st.op = "get" =>
                          st.ret = IF st.seen = <<>> THEN PyNone
                                   ELSE Newest(st.seen)

\* C14 witness: a caller whose earlier put failed at its commit, the
\* transaction open and the write lock held, gets the result a put
\* committed afterwards.
C14_Witness ==
    \E p \in Procs :
        /\ proc[p].op = "get" /\ proc[p].pc = "close"
        /\ proc[p].fault = "none"
        /\ "commit" \in proc[p].past
        /\ proc[p].ret = ResultLGTM

\* the steps of _get_connection: the directory, the database file, the table
InitSteps == {"makedirs", "connect", "schema"}

\* C15 (initialization failure), as claimed: once a call of a caller has
\* failed in its initialization, every later get of that caller returns
\* None and every later put of it stores nothing.
C15_DegradesPermanently ==
    \A p \in Procs :
        (proc[p].past \cap InitSteps # {} /\ proc[p].pc = "close")
            => /\ proc[p].op = "get" => proc[p].ret = PyNone
               /\ proc[p].op = "put" => ~proc[p].committed

\* C15, amended: a call whose initialization fails returns None (get) or
\* stores nothing (put) and goes on to its finally clause without raising;
\* the failure is not remembered, every call initializes anew, and a later
\* call of the same caller that meets no fault commits its put and returns
\* for its get the result committed last.
C15_DegradesWhileFailing ==
    \A p \in Procs :
        LET st == proc[p]
        IN  /\ st.fault \in InitSteps
                  => /\ st.pc = "close"
                     /\ st.op = "get" => st.ret = PyNone
                     /\ ~effect[p] /\ ~st.committed
            /\ (/\ st.past \cap InitSteps # {}
                /\ st.pc = "close" /\ st.fault = "none")
                  => /\ st.op = "put" => st.committed
                     /\ (st.op = "get" /\ st.seen # <<>>)
                           => st.ret = Newest(st.seen)

\* C15 witness: a caller whose earlier call could not create the table
\* gets a stored result.
C15_Witness ==
    \E p \in Procs :
        /\ proc[p].op = "get" /\ proc[p].pc = "close"
        /\ "schema" \in proc[p].past
        /\ proc[p].hit /\ proc[p].ret = ResultLGTM

\* the step in which _get_connection of caller p returns its connection
SetupReturns(p) == GetConnection(p) /\ proc'[p].conn = "bound"

\* C16 (schema setup is idempotent): whenever a call is about to run its
\* setup, whatever directories, tables and entries exist and whatever the
\* other callers are doing, the setup can succeed; and no run of the
\* setup, successful or failed, changes an entry.
C16_SetupIdempotent ==
    /\ [](\A p \in Procs : proc[p].pc = "connect" => ENABLED SetupReturns(p))
    /\ [][\A p \in Procs :
            (proc[p].pc = "connect" /\ proc'[p].pc # "connect")
               => AllRows(db') = AllRows(db)]_vars

\* C16 witness: the setup of a call has returned its connection after it
\* ran over a table that existed and held entries.
C16_Witness ==
    \E p \in Procs :
        /\ proc[p].pc \in {"select", "insert"}
        /\ proc[p].conn = "bound" /\ proc[p].over
        /\ db[proc[p].path].rows # {}

\* the entry of a key in a table: the set of its rows
EntryOf(rows, key) == {r \in rows : RowKey(r) = key}

\* C17 (key isolation): a step changes the entry of a key only as the
\* commit of a put under that very provider, model and fingerprint, so the
\* entries of all other keys, and what a get of them returns, are as
\* before; and a get returns the result committed last under its own
\* provider, model and fingerprint, or None when there is none, whatever
\* is stored for the same diff set under other providers and models.
C17_KeyIsolation ==
    /\ [][\A path \in DbPaths :
            \A key \in KeysOf(db[path].rows) \cup KeysOf(db'[path].rows) :
               EntryOf(db'[path].rows, key) # EntryOf(db[path].rows, key)
                  => Committing(path, key) # {}]_vars
    /\ [](\A p \in Procs :
            (/\ proc[p].op = "get" /\ proc[p].pc = "close"
             /\ proc[p].fault = "none")
               => proc[p].ret = IF proc[p].seen = <<>> THEN PyNone
                                ELSE Newest(proc[p].seen))

\* C17 witness: a get returns the result stored under its provider and
\* model while the same diff set holds another result under another
\* provider or model.
C17_Witness ==
    \E p \in Procs :
        /\ proc[p].op = "get" /\ proc[p].pc = "close"
        /\ proc[p].ret = ResultLGTM
        /\ \E r \in db[proc[p].path].rows :
              /\ r.diff_hash = proc[p].diff_hash
              /\ RowKey(r) # CallKey(proc[p])
              /\ r.result_json = Dumps(ResultQuoted).s

\* C18 (store location is fixed), as claimed: a get addresses the location
\* that the puts committed before it addressed, whatever happened to
\* REVIEW_CACHE_DB_PATH in between: the puts of its provider, model and
\* diff set that had committed when its SELECT ran all wrote to the
\* database this get reads, and it finds their entry.
C18_LocationFixed ==
    \A p \in Procs :
        (/\ proc[p].op = "get" /\ proc[p].pc = "close"
         /\ proc[p].fault = "none" /\ proc[p].wrote # {})
            => /\ proc[p].wrote = {proc[p].path}
               /\ proc[p].hit

\* the callers that take a step of a get in this step
Getting ==
    {p \in Procs : /\ proc'[p] # proc[p]
                   /\ (proc[p].op = "get" \/ proc'[p].op = "get")}

\* C19 (get is read-only): no step of a get, from its entry to its return,
\* whether it hits, misses or fails, inserts, replaces or removes a row of
\* any table; it may create the directory, the file and the empty table.
C19_GetReadOnly ==
    [][Getting # {} => AllRows(db') = AllRows(db)]_vars

\* C19 witness: a get has failed at its SELECT on a table that holds an
\* entry.
C19_Witness ==
    \E p \in Procs :
        /\ proc[p].op = "get" /\ proc[p].pc = "close"
        /\ proc[p].fault = "select"
        /\ db[proc[p].path].rows # {}

\* the flags of a change, as the triple (is_new, is_deleted, is_renamed)
FlagsOf(change) ==
    <<change.new_file = PyBool(TRUE), change.deleted_file = PyBool(TRUE),
      change.renamed_file = PyBool(TRUE)>>

\* the changes given to the fingerprint, as <<diff set, position>>
FpPlaces == {<<k, i>> : k \in 1..2, i \in 1..MaxRecords + 1}
FpGiven == {pl \in FpPlaces : pl[2] <= Len(fpArgs[pl[1]])}

\* C20 (flag code): the flags code computed for every change has exactly 3
\* characters, N or - first, D or - second, R or - third, the letter
\* standing exactly where the flag is set; and two changes whose flag
\* combinations differ get different codes.
C20_FlagCode ==
    fpOut # <<>> =>
       /\ \A pl \in FpGiven :
             LET code == fpOut[pl[1]].flags[pl[2]]
                 flags == FlagsOf(fpArgs[pl[1]][pl[2]])
             IN  /\ Len(code) = 3
                 /\ code[1] = IF flags[1] THEN "N" ELSE "-"
                 /\ code[2] = IF flags[2] THEN "D" ELSE "-"
                 /\ code[3] = IF flags[3] THEN "R" ELSE "-"
       /\ \A pl, pm \in FpGiven :
             FlagsOf(fpArgs[pl[1]][pl[2]]) # FlagsOf(fpArgs[pm[1]][pm[2]])
                => fpOut[pl[1]].flags[pl[2]] # fpOut[pm[1]].flags[pm[2]]

\* C20 witness: the codes of a new, renamed change and of a deleted one.
C20_Witness ==
    /\ fpOut # <<>>
    /\ Len(fpArgs[1]) = 1 /\ Len(fpArgs[2]) = 1
    /\ FlagsOf(fpArgs[1][1]) = <<TRUE, FALSE, TRUE>>
    /\ FlagsOf(fpArgs[2][1]) = <<FALSE, TRUE, FALSE>>
    /\ fpOut[1].flags[1] = <<"N", "-", "R">>
    /\ fpOut[2].flags[1] = <<"-", "D", "-">>

\* C21 (monitoring never affects the caller), as claimed: no call of a
\* send_* function ends in an exception, whatever the webhook answers and
\* whatever the timeout setting holds; and a call that found the webhook
\* URL unset or blank makes no HTTP request.
C21_MonitoringContained ==
    /\ mon.pc # "raised"
    /\ (mon.pc = "returned" /\ mon.entryUrl = PyNone) => mon.requests = 0

====
